---- MODULE Spec2Model ----
(***************************************************************************)
(* Position lifecycle of the trade-mvp signal pipeline.                    *)
(*                                                                         *)
(* src/src/pipeline.py: main() is one run of the daily batch: price        *)
(* snapshot, screen, BUY/HOLD rows, exit rules over the loaded ledger,     *)
(* duplicate-BUY suppression, signal table, ledger update and save.        *)
(* src/src/portfolio/positions.py: the ledger file and the pure helpers    *)
(* load_positions, save_positions, open_position, close_position and       *)
(* calculate_position_size.                                                *)
(*                                                                         *)
(* Numbers.  Prices are whole currency units, returns and P&L thresholds   *)
(* are percent, sentiment is in hundredths of the [0,1] scale, the sizer's *)
(* stop distance is in units of 1/StopScale.  Every comparison of the code *)
(* is done exactly on these integers; the value sets below are chosen so   *)
(* that the code's float comparisons give the same verdicts.  The one      *)
(* place where rounding decides a branch, the guard of zscore on a series  *)
(* of equal values, is modelled with rounding (see the scoring section).   *)
(*                                                                         *)
(* Dates.  A calendar date is a day number.  The entry_date cell of a      *)
(* ledger row also carries HOW it is held, because line 250 of pipeline.py *)
(* parses str(cell) with datetime.date.fromisoformat:                      *)
(*   "date"          datetime.date object made by open_position            *)
(*   "Timestamp"     pandas Timestamp made by read_csv(parse_dates=...)    *)
(*   "str_date"      the CSV text kept as a string, "YYYY-MM-DD"           *)
(*   "str_datetime"  the CSV text kept as a string, "YYYY-MM-DD 00:00:00"  *)
(***************************************************************************)
EXTENDS Integers, Sequences, FiniteSets, TLC

VARIABLES
    today,           \* dt.date.today(), a day number
    nruns,           \* number of pipeline runs started so far
    positions_file,  \* data/positions.csv: sequence of rows, <<>> = no file
    signals,         \* data/signals_latest.csv: rows of the last table written
    trades_log,      \* closed-trade log, append only
    outcome,         \* how the last run of main() ended
    last_close,      \* main(): last_close of the last run (ticker -> price)
    buy_set,         \* main(): buy_set of the last run
    open_set,        \* main(): open_set of the last run
    universe,        \* main(): tickers of the last run, from load_universe
    fetched,         \* whether the last run called get_prices
    sent_news_norm,  \* main(): s_news of the last run (ticker -> sent_norm)
    sent_reddit_norm,\* main(): s_redd of the last run
    fn               \* last application of a ledger / sizer function

vars == <<today, nruns, positions_file, signals, trades_log, outcome,
          last_close, buy_set, open_set, universe, fetched, sent_news_norm,
          sent_reddit_norm, fn>>

pipeVars == <<today, nruns, positions_file, signals, trades_log, outcome,
              last_close, buy_set, open_set, universe, fetched,
              sent_news_norm, sent_reddit_norm>>

----------------------------------------------------------------------------
(* Bounds of the model *)

MaxDay == 3
MaxRuns == 3
ScreenUniverse == 20
ZLen == 3

(* Program constants *)

MIN_PRICE == 5
MIN_AVG_VOL_20D == 2000000
MinScreened == 10
TOP_N_BUYS == 10
HOLD_DAYS_MAX == 3
STOP_LOSS == 8
TAKE_PROFIT == 5
SENT_EXIT_MIN == 20
W_SENT_NEWS == 60
W_SENT_REDDIT == 40
PORTFOLIO_EQUITY == 100000
RISK_PER_TRADE == 1
BUY_QTY == 1
StopScale == 100 * 1000
W_MOM == 30
W_RS == 30
W_NEWS == 20
W_REDDIT == 10
W_SQUEEZE == 10
ZUnit == 100
MantBits == 4

(* Input domains *)

TickerOrder == <<"A", "B">>
Tickers == {TickerOrder[i] : i \in DOMAIN TickerOrder}
Prices == {91, 100}
Volumes == {3000000}
R5Vals == {0, 3}
\* (news, reddit) normalised sentiment of a ticker: none at all, news only,
\* reddit only (the last one blends to exactly SENT_EXIT_MIN)
Sentiments == {<<0, 0>>, <<50, 0>>, <<0, 50>>}

\* the scoring on its own: tickers in column order, values of a series
\* given to zscore, sector ETF returns, short interest, sentiment pairs
ScoreOrder == <<"A", "B", "C">>
ScoreTickers == {ScoreOrder[i] : i \in DOMAIN ScoreOrder}
ZVals == {0, 3, 14}
SecVals == {0, 2}
SiVals == {0, 10}
ScoreSents == {<<0, 0>>, <<50, 0>>}

----------------------------------------------------------------------------
(* Small helpers standing for pandas / Python idioms *)

\* Series.get(t, default) / dict.get(t, default)
Get(f, t, default) == IF t \in DOMAIN f THEN f[t] ELSE default

\* the tickers of a ledger frame, df["ticker"].tolist() as a set
TickersOf(df) == {df[i].ticker : i \in DOMAIN df}

\* list of the members of S in column order
InOrder(S) == SelectSeq(TickerOrder, LAMBDA t : t \in S)

Min(a, b) == IF a <= b THEN a ELSE b
Max(a, b) == IF a >= b THEN a ELSE b

----------------------------------------------------------------------------
(* positions.py: the ledger *)

\* str(cell) as line 250 sees it: does it carry a time part
StrText(cell) == IF cell \in {"date", "str_date"} THEN "date" ELSE "datetime"

\* dt.date.fromisoformat(str(cell)) succeeds only on a plain date text
FromIsoformatOK(cell) == StrText(cell) = "date"

\* the file has rows of one text form only
UniformFile(file) == \A i, j \in DOMAIN file : file[i].text = file[j].text

\* load_positions: read_csv(parse_dates=["entry_date"]).  A column of one
\* text form parses to datetime64 (every cell a Timestamp).  A column of
\* mixed text forms is parsed element-wise by older pandas (Timestamps) and
\* left as strings by pandas 2: keepStr picks the build.
load_positions(file, keepStr) ==
    [i \in DOMAIN file |->
        [ticker      |-> file[i].ticker,
         qty         |-> file[i].qty,
         entry_price |-> file[i].entry_price,
         entry_date  |-> file[i].entry_date,
         cell        |-> IF UniformFile(file) \/ ~keepStr THEN "Timestamp"
                         ELSE IF file[i].text = "date" THEN "str_date"
                         ELSE "str_datetime"]]

\* save_positions: to_csv, or remove the file when the frame is empty.  A
\* datetime64 column of midnights is written as plain dates; an object
\* column is written cell by cell with str().
save_positions(df) ==
    LET dt64 == \A i \in DOMAIN df : df[i].cell = "Timestamp"
    IN  [i \in DOMAIN df |->
            [ticker      |-> df[i].ticker,
             qty         |-> df[i].qty,
             entry_price |-> df[i].entry_price,
             entry_date  |-> df[i].entry_date,
             text        |-> IF dt64 THEN "date" ELSE StrText(df[i].cell)]]

\* open_position: no look-up of the ticker, the row is appended
open_position(df, ticker, qty, entry_price, date) ==
    IF qty <= 0 THEN df
    ELSE Append(df, [ticker      |-> ticker,
                     qty         |-> qty,
                     entry_price |-> entry_price,
                     entry_date  |-> date,
                     cell        |-> "date"])

\* close_position that finds the rows and returns the frame it was given
close_position_keep(df, ticker) == df

\* close_position that returns an empty frame once the ticker is found
close_position_clear(df, ticker) ==
    IF \A i \in DOMAIN df : df[i].ticker # ticker THEN df ELSE <<>>

\* close_position: drop every row of the ticker
close_position(df, ticker) ==
    IF \A i \in DOMAIN df : df[i].ticker # ticker THEN df
    ELSE SelectSeq(df, LAMBDA r : r.ticker # ticker)

\* the sizer rounding the quotient up instead of down
calculate_position_size_ceil(entry_price, sl) ==
    IF entry_price <= 0 \/ sl <= 0 THEN 0
    ELSE LET max_risk_usd == (PORTFOLIO_EQUITY * RISK_PER_TRADE) \div 100
             rps_scaled == entry_price * sl
         IN  (max_risk_usd * StopScale + rps_scaled - 1) \div rps_scaled

\* the sizer taking the whole entry price as the risk per share
calculate_position_size_full_price(entry_price, sl) ==
    IF entry_price <= 0 \/ sl <= 0 THEN 0
    ELSE LET max_risk_usd == (PORTFOLIO_EQUITY * RISK_PER_TRADE) \div 100
         IN  Max(0, max_risk_usd \div entry_price)

\* calculate_position_size(entry_price, stop_loss_pct), the stop distance
\* given as sl / StopScale
calculate_position_size(entry_price, sl) ==
    IF entry_price <= 0 \/ sl <= 0 THEN 0
    ELSE LET max_risk_usd == (PORTFOLIO_EQUITY * RISK_PER_TRADE) \div 100
             \* risk_per_share = entry_price * sl / StopScale
             rps_scaled == entry_price * sl
             floored == (max_risk_usd * StopScale) \div rps_scaled
             qty == IF floored < 1 /\ max_risk_usd * StopScale > rps_scaled
                    THEN 1 ELSE floored
         IN  IF rps_scaled <= 0 THEN 0 ELSE Max(0, qty)

----------------------------------------------------------------------------
(* pipeline.py: the pieces of main() *)

\* the screen without the fallback of lines 93-94
ScreenNoFallback(lc, avg_vol) ==
    {t \in DOMAIN lc : lc[t] > MIN_PRICE /\ avg_vol[t] > MIN_AVG_VOL_20D}

\* lines 91-94: the screen with its fallback to every priced ticker
Screen(lc, avg_vol) ==
    LET passing == {t \in DOMAIN lc :
                        lc[t] > MIN_PRICE /\ avg_vol[t] > MIN_AVG_VOL_20D}
    IN  IF Cardinality(passing) < MinScreened THEN DOMAIN lc ELSE passing

\* line 200: head(TOP_N_BUYS) of the ranking keeps min(N, size) tickers; the
\* ranking itself is left open here, B is any set of that size
BuySets(idx) ==
    {B \in SUBSET idx : Cardinality(B) = Min(TOP_N_BUYS, Cardinality(idx))}

\* one row of the signal table
SignalRow(d, t, action, qty, price, reasons, r5, sn, sr) ==
    [date |-> d, ticker |-> t, action |-> action, qty |-> qty,
     entry_price |-> price, reasons |-> reasons, r5 |-> r5,
     sn |-> sn, sr |-> sr]

\* lines 203-238: one BUY/HOLD row per screened ticker
RowsBase(env, screened, bs) ==
    LET scr == InOrder(screened)
    IN  [i \in DOMAIN scr |->
            SignalRow(env.today, scr[i],
                      IF scr[i] \in bs THEN "BUY" ELSE "HOLD",
                      0, Get(env.last_close, scr[i], 0), <<>>,
                      Get(env.r5_today, scr[i], 0),
                      Get(env.s_news, scr[i], 0),
                      Get(env.s_redd, scr[i], 0))]

Trig(cond, name) == IF cond THEN <<name>> ELSE <<>>

\* the exit rules as an if / elif chain: only the first firing one is kept
TriggersFirstOnly(entry, price, r5, sn, sr, days_held) ==
    IF (price - entry) * 100 <= -STOP_LOSS * entry THEN <<"stop -8%">>
    ELSE IF (price - entry) * 100 >= TAKE_PROFIT * entry THEN <<"take +5%">>
    ELSE IF r5 <= 0 THEN <<"momentum<=0">>
    ELSE IF W_SENT_NEWS * sn + W_SENT_REDDIT * sr < SENT_EXIT_MIN * 100
         THEN <<"sent_norm<0.20">>
    ELSE IF days_held >= HOLD_DAYS_MAX THEN <<"time>3d">>
    ELSE <<>>

\* lines 264-270: the five exit rules, every firing one collected in order
Triggers(entry, price, r5, sn, sr, days_held) ==
    Trig((price - entry) * 100 <= -STOP_LOSS * entry, "stop -8%")
    \o Trig((price - entry) * 100 >= TAKE_PROFIT * entry, "take +5%")
    \o Trig(r5 <= 0, "momentum<=0")
    \o Trig(W_SENT_NEWS * sn + W_SENT_REDDIT * sr < SENT_EXIT_MIN * 100,
            "sent_norm<0.20")
    \o Trig(days_held >= HOLD_DAYS_MAX, "time>3d")

\* log_closed_trade(ticker, entry date and price, exit date and price, qty,
\* pnl, reasons, exit_features): one row appended to the closed-trade log.
\* pnl is (exit_price - entry_price) / entry_price of the row; of
\* exit_features the row keeps r5, news_norm and reddit_norm.
log_closed_trade(log, t, d0, entry, d1, price, qty, reasons, r5, sn, sr) ==
    Append(log, [ticker |-> t, entry_date |-> d0,
                 entry_price |-> entry, exit_date |-> d1,
                 exit_price |-> price, qty |-> qty, reasons |-> reasons,
                 r5 |-> r5, sn |-> sn, sr |-> sr])

\* lines 249-300: a row whose ticker has a price.  st holds positions (the
\* frame rebound by close_position), sell_rows, the log, and whether line
\* 250 raised ValueError.
EvaluateRow(pos, st, env) ==
    IF ~FromIsoformatOK(pos.cell)
    THEN [st EXCEPT !.raised = TRUE]
    ELSE
      LET t == pos.ticker
          entry == pos.entry_price
          price == env.last_close[t]
          days_held == env.today - pos.entry_date
          r5 == Get(env.r5_today, t, 0)
          sn == Get(env.s_news, t, 0)
          sr == Get(env.s_redd, t, 0)
          triggers == Triggers(entry, price, r5, sn, sr, days_held)
      IN
      IF triggers = <<>> THEN st
      ELSE [positions |-> close_position(st.positions, t),
            sell_rows |-> Append(st.sell_rows,
                            SignalRow(env.today, t, "SELL", pos.qty,
                                      price, triggers, r5, sn, sr)),
            log       |-> log_closed_trade(st.log, t, pos.entry_date, entry,
                            env.today, price, pos.qty, triggers, r5, sn, sr),
            raised    |-> FALSE]

\* the exit loop closing a row without a price instead of passing it over
ExitStepNoSkip(pos, st, env) ==
    IF pos.ticker \notin DOMAIN env.last_close
    THEN [st EXCEPT !.positions = close_position(st.positions, pos.ticker)]
    ELSE EvaluateRow(pos, st, env)

\* lines 244-247: a row whose ticker has no price today is passed over
ExitStep(pos, st, env) ==
    IF pos.ticker \notin DOMAIN env.last_close THEN st
    ELSE EvaluateRow(pos, st, env)

\* lines 241-300: the loop over the rows of the ledger as loaded; an
\* exception ends main()
RECURSIVE ExitEngine(_, _, _, _)
ExitEngine(i, loaded, st, env) ==
    IF i > Len(loaded) \/ st.raised THEN st
    ELSE ExitEngine(i + 1, loaded, ExitStep(loaded[i], st, env), env)

\* no suppression of duplicate BUYs at all
SuppressNothing(rows, os) == rows

\* the suppression testing the wrong action, so that a BUY stays a BUY
SuppressHoldOnly(rows, os) ==
    [i \in DOMAIN rows |->
        IF rows[i].ticker \in os /\ rows[i].action = "HOLD"
        THEN [rows[i] EXCEPT !.action = "HOLD"] ELSE rows[i]]

\* lines 303-306: a BUY on a ticker still open becomes HOLD
SuppressDuplicates(rows, os) ==
    [i \in DOMAIN rows |->
        IF rows[i].ticker \in os /\ rows[i].action = "BUY"
        THEN [rows[i] EXCEPT !.action = "HOLD"] ELSE rows[i]]

\* lines 317-321: open_position for every BUY row, in row order
RECURSIVE UpdatePositions(_, _, _)
UpdatePositions(i, rows, updated) ==
    IF i > Len(rows) THEN updated
    ELSE UpdatePositions(i + 1, rows,
            IF rows[i].action = "BUY"
            THEN open_position(updated, rows[i].ticker, BUY_QTY,
                               rows[i].entry_price, rows[i].date)
            ELSE updated)

----------------------------------------------------------------------------
(* main(): one run, by the way it ends *)

\* lines 80-83: no price row at all, SystemExit before anything is written
MainNoPriceData ==
    /\ nruns < MaxRuns
    /\ nruns' = nruns + 1
    /\ outcome' = "no_price_data"
    /\ last_close' = <<>>
    /\ universe' = Tickers
    /\ fetched' = TRUE
    /\ sent_news_norm' = <<>>
    /\ sent_reddit_norm' = <<>>
    /\ UNCHANGED <<today, positions_file, signals, trades_log, buy_set,
                   open_set, fn>>

\* the universe check of lines 73-76 made after the price download
MainEmptyUniverseLate ==
    /\ nruns < MaxRuns
    /\ nruns' = nruns + 1
    /\ outcome' = "empty_universe"
    /\ last_close' = <<>>
    /\ universe' = {}
    /\ fetched' = TRUE
    /\ sent_news_norm' = <<>>
    /\ sent_reddit_norm' = <<>>
    /\ UNCHANGED <<today, positions_file, signals, trades_log, buy_set,
                   open_set, fn>>

\* lines 73-76: load_universe gave no ticker (file missing, no ticker column,
\* no rows): raise SystemExit before get_prices is called
MainEmptyUniverse ==
    /\ nruns < MaxRuns
    /\ nruns' = nruns + 1
    /\ outcome' = "empty_universe"
    /\ last_close' = <<>>
    /\ universe' = {}
    /\ fetched' = FALSE
    /\ sent_news_norm' = <<>>
    /\ sent_reddit_norm' = <<>>
    /\ UNCHANGED <<today, positions_file, signals, trades_log, buy_set,
                   open_set, fn>>

\* the state main() builds up to the end of the exit loop
RunEnv(lc, r5, sn, sr) ==
    [today |-> today, last_close |-> lc, r5_today |-> r5,
     s_news |-> sn, s_redd |-> sr]

ExitResult(env, keepStr) ==
    LET loaded == load_positions(positions_file, keepStr)
    IN  ExitEngine(1, loaded,
                   [positions |-> loaded, sell_rows |-> <<>>,
                    log |-> trades_log, raised |-> FALSE],
                   env)

\* line 250 raises ValueError: main() ends inside the exit loop, the signal
\* table and the ledger file are not written
MainValueError(env, keepStr) ==
    LET res == ExitResult(env, keepStr)
    IN  /\ res.raised
        /\ nruns' = nruns + 1
        /\ outcome' = "value_error"
        /\ last_close' = env.last_close
        /\ universe' = Tickers
        /\ fetched' = TRUE
        /\ sent_news_norm' = env.s_news
        /\ sent_reddit_norm' = env.s_redd
        /\ trades_log' = res.log
        /\ UNCHANGED <<today, positions_file, signals, buy_set, open_set, fn>>

\* the table written with the BUY/HOLD rows ahead of the SELL rows
SignalTableBaseFirst(sell_rows, rows_base) == rows_base \o sell_rows

\* the table keeping one row per ticker: no BUY/HOLD row for a sold ticker
SignalTableOnePerTicker(sell_rows, rows_base) ==
    sell_rows \o SelectSeq(rows_base,
                  LAMBDA r : \A i \in DOMAIN sell_rows :
                                 sell_rows[i].ticker # r.ticker)

\* lines 309-314: the header, then each SELL row, then each BUY/HOLD row
SignalTable(sell_rows, rows_base) == sell_rows \o rows_base

\* main() runs to its end
MainCompletes(env, screened, bs, keepStr) ==
    LET res == ExitResult(env, keepStr)
        os == TickersOf(res.positions)
        rows_base == SuppressDuplicates(RowsBase(env, screened, bs), os)
        updated == UpdatePositions(1, rows_base, res.positions)
    IN  /\ ~res.raised
        /\ nruns' = nruns + 1
        /\ outcome' = "completed"
        /\ universe' = Tickers
        /\ fetched' = TRUE
        /\ sent_news_norm' = env.s_news
        /\ sent_reddit_norm' = env.s_redd
        /\ last_close' = env.last_close
        /\ buy_set' = bs
        /\ open_set' = os
        /\ signals' = SignalTable(res.sell_rows, rows_base)
        /\ trades_log' = res.log
        /\ positions_file' = save_positions(updated)
        /\ UNCHANGED <<today, fn>>

\* The momentum and sentiment inputs are read by the exit loop only for a
\* row whose entry date parsed.  When the loop raises before it closed
\* anything even with no such input at all (every parsed row would then
\* have been sold on momentum<=0), the run ends the same way whatever they
\* are, and they are not drawn.
RaisesAtOnce(lc, keepStr) ==
    LET res == ExitResult(RunEnv(lc, <<>>, <<>>, <<>>), keepStr)
    IN  res.raised /\ res.log = trades_log

Main ==
    /\ nruns < MaxRuns
    /\ \E priced \in (SUBSET Tickers) \ {{}} :
       \E lc \in [priced -> Prices], avg_vol \in [priced -> Volumes],
          keepStr \in IF UniformFile(positions_file) THEN {FALSE} ELSE BOOLEAN :
       IF RaisesAtOnce(lc, keepStr)
       THEN MainValueError(RunEnv(lc, <<>>, <<>>, <<>>), keepStr)
       ELSE
         LET screened == Screen(lc, avg_vol) IN
         \E idx \in SUBSET screened :
         \E r5 \in [idx -> R5Vals], sent \in [idx -> Sentiments],
            bs \in BuySets(idx) :
            LET env == RunEnv(lc, r5, [t \in idx |-> sent[t][1]],
                              [t \in idx |-> sent[t][2]])
            IN  \/ MainValueError(env, keepStr)
                \/ MainCompletes(env, screened, bs, keepStr)

\* the calendar moves on between runs
NextDay ==
    /\ today < MaxDay
    /\ today' = today + 1
    /\ UNCHANGED <<nruns, positions_file, signals, trades_log, outcome,
                   last_close, buy_set, open_set, universe, fetched,
                   sent_news_norm, sent_reddit_norm, fn>>

Init ==
    /\ today = 0
    /\ nruns = 0
    /\ positions_file = <<>>
    /\ signals = <<>>
    /\ trades_log = <<>>
    /\ outcome = "none"
    /\ last_close = <<>>
    /\ buy_set = {}
    /\ open_set = {}
    /\ universe = {}
    /\ fetched = FALSE
    /\ sent_news_norm = <<>>
    /\ sent_reddit_norm = <<>>
    /\ fn = [op |-> "none"]

Next == MainEmptyUniverse \/ MainNoPriceData \/ Main \/ NextDay

Spec == Init /\ [][Next]_vars

----------------------------------------------------------------------------
(* pipeline.py: the scoring of lines 64-67 and 171-200 *)

(* A series is a function from its index to numbers.  Returns and short     *)
(* interest are percent, z-scores are kept to 1/ZUnit (magnitude truncated),*)
(* squeeze scores are in 1/ZUnit^2, combined scores in 1/(100 ZUnit^2).     *)
(*                                                                          *)
(* s.mean() and s.std(ddof=0) are float computations.  For a series whose   *)
(* values differ the guard "sd and sd > 0" passes whatever the rounding is. *)
(* For a series of equal values x it passes exactly when the computed mean, *)
(* fl(fl(x + ... + x) / N), is not x: then every deviation is the same      *)
(* rounding error and (s - mu) / sd is +1 or -1.  The rounding is modelled  *)
(* with significands of MantBits bits, round-half-to-even (binary64 has 53  *)
(* bits: 0.1 + 0.1 + 0.1 is 0.30000000000000004 and its third is            *)
(* 0.10000000000000002).  Values are held in units of 2^-(MantBits-1).      *)

RECURSIVE SumOver(_, _)
SumOver(f, S) ==
    IF S = {} THEN 0
    ELSE LET t == CHOOSE x \in S : TRUE
         IN  f[t] + SumOver(f, S \ {t})

Sign(x) == IF x > 0 THEN 1 ELSE IF x < 0 THEN -1 ELSE 0
Abs(x) == IF x < 0 THEN -x ELSE x

RECURSIVE Pow2(_)
Pow2(k) == IF k = 0 THEN 1 ELSE 2 * Pow2(k - 1)

\* integer square root, the root known to be at most hi
ISqrt(n, hi) == CHOOSE k \in 0..hi : k * k <= n /\ (k + 1) * (k + 1) > n

\* the least e >= 0 with num / (den * 2^e) < 2^MantBits
RECURSIVE FlExp(_, _, _)
FlExp(num, den, e) ==
    IF num >= Pow2(MantBits) * den * Pow2(e) THEN FlExp(num, den, e + 1)
    ELSE e

\* num / den >= 0 rounded to MantBits significant bits, ties to even
Fl(num, den) ==
    LET e == FlExp(num, den, 0)
        D == den * Pow2(e)
        q == num \div D
        r == num % D
        m == IF 2 * r > D \/ (2 * r = D /\ q % 2 = 1) THEN q + 1 ELSE q
    IN  m * Pow2(e)

\* x + x + ... + x (n terms) summed left to right
RECURSIVE FlSum(_, _)
FlSum(x, n) == IF n = 0 THEN 0 ELSE Fl(FlSum(x, n - 1) + x, 1)

\* s.mean() of n copies of x
ConstMean(x, n) == Sign(x) * Fl(FlSum(Abs(x) * Pow2(MantBits - 1), n), n)

\* zscore, lines 64-67: (s - mu) / sd if (sd and sd > 0) else s * 0
zscore(s) ==
    LET I == DOMAIN s
        N == Cardinality(I)
        S == SumOver(s, I)
        \* N * (s[t] - mean) and N^3 * variance
        d == [t \in I |-> N * s[t] - S]
        ss == SumOver([t \in I |-> d[t] * d[t]], I)
    IN  IF ss = 0
        THEN \* equal values: sd > 0 iff the computed mean is off the value
             [t \in I |->
                ZUnit * Sign(s[t] * Pow2(MantBits - 1) - ConstMean(s[t], N))]
        ELSE [t \in I |->
                Sign(d[t]) * ISqrt((ZUnit * ZUnit * N * d[t] * d[t]) \div ss,
                                   ZUnit * N)]

\* .reindex(idx).fillna(0.0)
Reindex(f, idx) == [t \in idx |-> Get(f, t, 0)]

\* the squeeze score as the sum of the two clipped z-scores
squeeze_score_sum(si_z, r5_z) ==
    [t \in DOMAIN r5_z |-> Max(0, si_z[t]) + Max(0, r5_z[t])]

\* line 174: si_z.clip(lower=0) * r5_z_all.clip(lower=0)
squeeze_score(si_z, r5_z) ==
    [t \in DOMAIN r5_z |-> Max(0, si_z[t]) * Max(0, r5_z[t])]

\* lines 192-198: the weighted sum, weights in percent
Combined(w, r5_z, rs5_z, s_news, s_redd, sq) ==
    [t \in DOMAIN r5_z |->
        ZUnit * (w.mom * r5_z[t] + w.rs * rs5_z[t]
                    + w.news * s_news[t] + w.reddit * s_redd[t])
        + w.squeeze * sq[t]]

\* sort_values(ascending=False): the greatest first, equal scores in index
\* order (numpy sorts fewer than 16 elements by insertion)
RECURSIVE SortDescending(_, _, _)
SortDescending(score, order, left) ==
    IF left = {} THEN <<>>
    ELSE LET inOrd == SelectSeq(order, LAMBDA t : t \in left)
             top == CHOOSE i \in DOMAIN inOrd :
                        /\ \A j \in DOMAIN inOrd :
                              score[inOrd[j]] <= score[inOrd[i]]
                        /\ \A j \in 1..(i - 1) :
                              score[inOrd[j]] < score[inOrd[i]]
         IN  <<inOrd[top]>> \o SortDescending(score, order,
                                              left \ {inOrd[top]})

\* head(n) of the ranking taken from its tail
TailSet(seq, n) ==
    {seq[i] : i \in (Len(seq) - Min(n, Len(seq)) + 1)..Len(seq)}

\* line 200: set(....head(TOP_N_BUYS).index.tolist())
HeadSet(seq, n) == {seq[i] : i \in 1..Min(n, Len(seq))}

\* lines 97-238 for one scoring of the screened tickers: what the run
\* derives from its inputs up to the BUY/HOLD column
Score(a) ==
    LET idx == DOMAIN a.r5                       \* r5_today.index
        r5_z_all == zscore(a.r5)
        rs5 == [t \in idx |-> a.r5[t] - a.sec_r5[t]]
        rs5_z == Reindex(zscore(rs5), idx)
        si_z == Reindex(zscore(a.si_pct), idx)
        sq == squeeze_score(si_z, r5_z_all)
        s_news == [t \in idx |-> a.sent[t][1]]
        s_redd == [t \in idx |-> a.sent[t][2]]
        combined == Combined(a.w, r5_z_all, rs5_z, s_news, s_redd, sq)
        ranking == SortDescending(combined, a.order, idx)
        bs == HeadSet(ranking, a.top_n)
    IN  [r5_z |-> r5_z_all, si_z |-> si_z, squeeze |-> sq,
         \* line 214: sq = squeeze_score.get(t, 0.0), the value of the row
         sq_row |-> [t \in a.screened |-> Get(sq, t, 0)],
         combined |-> combined, buy_set |-> bs,
         action |-> [t \in a.screened |->
                        IF t \in bs THEN "BUY" ELSE "HOLD"]]

----------------------------------------------------------------------------
(* The ledger and sizer functions applied on their own *)

LedgerDates == {0, 2}
LedgerCells == {"date", "Timestamp"}
EntryPrices == {-100, 0, 1, 50, 91, 100, 106, 1250, 12500, 12501, 20000}
StopDistances == {-8000, 0, 1, 10, 5000, 8000, 10000, 25000, 50000, 100000}

LedgerRows ==
    [ticker : Tickers, qty : {1}, entry_price : Prices,
     entry_date : LedgerDates, cell : LedgerCells]

\* ledger frames as the pipeline holds them: at most one row per ticker
Ledgers ==
    {<<>>} \cup {<<r>> : r \in LedgerRows}
           \cup {pair \in LedgerRows \X LedgerRows :
                    pair[1].ticker # pair[2].ticker}

\* the applications to make, each with its arguments, not yet evaluated
OpenArgs ==
    [op : {"open_position"}, df : Ledgers, ticker : Tickers,
     qty : {0, 1, 125}, entry_price : Prices, date : LedgerDates,
     done : {FALSE}, result : {<<>>}]

CloseArgs ==
    [op : {"close_position"}, df : Ledgers, ticker : Tickers,
     done : {FALSE}, result : {<<>>}]

SizeArgs ==
    [op : {"calculate_position_size"}, entry_price : EntryPrices,
     sl : StopDistances, done : {FALSE}, result : {0}]

\* price snapshots for the screen: tickers 1..k have a close on the target
\* date, the first a of them are above the price floor (the others sit on
\* it), all but the first b are above the volume floor (the others on it)
ScreenArgs ==
    {[op      |-> "screen",
      lc      |-> [t \in 1..k |-> IF t <= a THEN MIN_PRICE + 1
                                            ELSE MIN_PRICE],
      avg_vol |-> [t \in 1..k |-> IF t > b THEN MIN_AVG_VOL_20D + 1
                                           ELSE MIN_AVG_VOL_20D],
      done    |-> FALSE,
      result  |-> {}] :
        k \in 0..ScreenUniverse, a \in 0..ScreenUniverse,
        b \in 0..ScreenUniverse}

\* series for zscore: up to ZLen values, indexed 1..n
ZScoreArgs ==
    {[op |-> "zscore", s |-> s, done |-> FALSE, result |-> <<>>] :
        s \in UNION {[1..n -> ZVals] : n \in 0..ZLen}}

\* the weights of lines 41-45, and those of the comments on lines 43-44
\* (news 0.25, reddit 0.15) next to the squeeze weight
WeightSets ==
    {[mom |-> W_MOM, rs |-> W_RS, news |-> W_NEWS, reddit |-> W_REDDIT,
      squeeze |-> W_SQUEEZE],
     [mom |-> W_MOM, rs |-> W_RS, news |-> 25, reddit |-> 15,
      squeeze |-> W_SQUEEZE]}

\* get_short_interest_pct(screened): a series of short-interest percentages
\* over some of the screened tickers
get_short_interest_pct(screened) ==
    UNION {[S -> SiVals] : S \in SUBSET screened}

\* the inputs of one scoring: 5-day returns of the tickers that have one,
\* the 5-day return of each ticker's sector ETF, short interest, sentiment
ScoreArgs ==
    {[op |-> "score", screened |-> ScoreTickers, order |-> ScoreOrder,
      r5 |-> r5, sec_r5 |-> [t \in ScoreTickers |->
                                IF t = ScoreOrder[1] THEN sec ELSE 0],
      si_pct |-> si, sent |-> sent, w |-> w, top_n |-> n,
      done |-> FALSE, result |-> <<>>] :
        r5 \in UNION {[S -> R5Vals] : S \in SUBSET ScoreTickers},
        sec \in SecVals,
        si \in get_short_interest_pct(ScoreTickers),
        sent \in [ScoreTickers -> ScoreSents],
        w \in WeightSets,
        n \in {1, TOP_N_BUYS}}

InitFn ==
    /\ today = 0
    /\ nruns = 0
    /\ positions_file = <<>>
    /\ signals = <<>>
    /\ trades_log = <<>>
    /\ outcome = "none"
    /\ last_close = <<>>
    /\ buy_set = {}
    /\ open_set = {}
    /\ universe = {}
    /\ fetched = FALSE
    /\ sent_news_norm = <<>>
    /\ sent_reddit_norm = <<>>
    /\ fn \in OpenArgs \cup CloseArgs \cup SizeArgs \cup ScreenArgs
                \cup ZScoreArgs \cup ScoreArgs

OpenCall ==
    /\ fn.op = "open_position" /\ ~fn.done
    /\ fn' = [fn EXCEPT !.done = TRUE,
                        !.result = open_position(fn.df, fn.ticker, fn.qty,
                                                 fn.entry_price, fn.date)]
    /\ UNCHANGED pipeVars

CloseCall ==
    /\ fn.op = "close_position" /\ ~fn.done
    /\ fn' = [fn EXCEPT !.done = TRUE,
                        !.result = close_position(fn.df, fn.ticker)]
    /\ UNCHANGED pipeVars

SizeCall ==
    /\ fn.op = "calculate_position_size" /\ ~fn.done
    /\ fn' = [fn EXCEPT !.done = TRUE,
                        !.result = calculate_position_size(fn.entry_price,
                                                           fn.sl)]
    /\ UNCHANGED pipeVars

ScreenCall ==
    /\ fn.op = "screen" /\ ~fn.done
    /\ fn' = [fn EXCEPT !.done = TRUE,
                        !.result = Screen(fn.lc, fn.avg_vol)]
    /\ UNCHANGED pipeVars

ZScoreCall ==
    /\ fn.op = "zscore" /\ ~fn.done
    /\ fn' = [fn EXCEPT !.done = TRUE, !.result = zscore(fn.s)]
    /\ UNCHANGED pipeVars

ScoreCall ==
    /\ fn.op = "score" /\ ~fn.done
    /\ fn' = [fn EXCEPT !.done = TRUE, !.result = Score(fn)]
    /\ UNCHANGED pipeVars

NextFn ==
    OpenCall \/ CloseCall \/ SizeCall \/ ScreenCall \/ ZScoreCall \/ ScoreCall

SpecFn == InitFn /\ [][NextFn]_vars

----------------------------------------------------------------------------
(* Properties *)

\* the position a ledger row stands for, whatever form its date cell has
PosVal(r) == [ticker |-> r.ticker, qty |-> r.qty,
              entry_price |-> r.entry_price, entry_date |-> r.entry_date]

PosVals(rows) == {PosVal(rows[i]) : i \in DOMAIN rows}

SellRows(table) == {i \in DOMAIN table : table[i].action = "SELL"}

Members(seq) == {seq[i] : i \in DOMAIN seq}

\* a step of main(), however it ends
RunStep == nruns' = nruns + 1

\* C1: open_position on a ticker that already has an open position, with
\* qty > 0, returns the ledger it was given.
C1_OpenIdempotent ==
    (fn.op = "open_position" /\ fn.done /\ fn.qty > 0
        /\ fn.ticker \in TickersOf(fn.df))
        => fn.result = fn.df

\* C2: the saved ledger holds at most one open position per ticker, after
\* any sequence of runs.
C2_TickerUnique ==
    \A i, j \in DOMAIN positions_file :
        positions_file[i].ticker = positions_file[j].ticker => i = j

\* a run completed in which a ticker of the buy set was still open: its BUY
\* was turned into HOLD and the ledger holds it once
C2_Witness ==
    /\ outcome = "completed"
    /\ \E i \in DOMAIN signals :
        /\ signals[i].ticker \in buy_set \cap open_set
        /\ signals[i].action = "HOLD"
        /\ signals[i].ticker \in TickersOf(positions_file)
    /\ Len(positions_file) = 2

\* C3: in a run, a ticker that is still open after the exit rules is never
\* written with action BUY, and its position is saved with the quantity,
\* entry price and entry date it had.
C3_NoBuyOnOpen ==
    [][(RunStep /\ outcome' = "completed") =>
        \A t \in open_set' :
            /\ \A i \in DOMAIN signals' :
                  signals'[i].ticker = t => signals'[i].action # "BUY"
            /\ {v \in PosVals(positions_file') : v.ticker = t}
                  = {v \in PosVals(positions_file) : v.ticker = t}
            /\ t \in TickersOf(positions_file)]_vars

\* a completed run held back the BUY of a ticker of the buy set that had a
\* price, a parsed entry date and no exit trigger
C3_Witness ==
    /\ outcome = "completed"
    /\ \E i \in DOMAIN signals :
        /\ signals[i].ticker \in buy_set \cap open_set
        /\ signals[i].action = "HOLD"
        /\ signals[i].ticker \in DOMAIN last_close

\* the five exit conditions of a position, stated on their own
StopLossHolds(entry, price) == (price - entry) * 100 <= -STOP_LOSS * entry
TakeProfitHolds(entry, price) == (price - entry) * 100 >= TAKE_PROFIT * entry
MomentumHolds(r5) == r5 <= 0
SentimentHolds(sn, sr) ==
    W_SENT_NEWS * sn + W_SENT_REDDIT * sr < SENT_EXIT_MIN * 100
TimeHolds(entry_date, d) == d - entry_date >= HOLD_DAYS_MAX

FiringSet(entry, price, r5, sn, sr, entry_date, d) ==
    {n \in {"stop -8%", "take +5%", "momentum<=0", "sent_norm<0.20",
            "time>3d"} :
        \/ n = "stop -8%" /\ StopLossHolds(entry, price)
        \/ n = "take +5%" /\ TakeProfitHolds(entry, price)
        \/ n = "momentum<=0" /\ MomentumHolds(r5)
        \/ n = "sent_norm<0.20" /\ SentimentHolds(sn, sr)
        \/ n = "time>3d" /\ TimeHolds(entry_date, d)}

\* the rows of a table for a ticker
RowsOf(table, t) == {r \in Members(table) : r.ticker = t}

\* ticker t is sold by the run that leads to the primed state
SoldWith(t, reason) ==
    /\ outcome' = "completed"
    /\ \E r \in RowsOf(signals', t) :
          r.action = "SELL" /\ reason \in Members(r.reasons)
    /\ t \notin open_set'

\* C4: in a run, an open position whose ticker has a price is closed if and
\* only if one of the five triggers holds; in particular a position whose
\* P&L is at or below the stop loss is closed with the stop-loss trigger
\* among the reasons, whatever the other factors are.
C4_ExitDecision ==
    [][RunStep =>
        \A k \in DOMAIN positions_file :
            LET p == positions_file[k]
                t == p.ticker
            IN  t \in DOMAIN last_close' =>
                /\ outcome' = "completed" =>
                      \A r \in RowsOf(signals', t) :
                          (t \notin open_set') <=>
                              FiringSet(p.entry_price, last_close'[t], r.r5,
                                        r.sn, r.sr, p.entry_date, today) # {}
                /\ StopLossHolds(p.entry_price, last_close'[t]) =>
                      SoldWith(t, "stop -8%")]_vars

\* C5: the reasons of every SELL row and of its closed-trade log entry are
\* exactly the triggers whose condition holds for that position in the run.
C5_AllTriggersReported ==
    LET n == Cardinality(SellRows(signals))
        base == Len(trades_log) - n
    IN  /\ base >= 0
        /\ \A j \in 1..n :
            LET r == signals[j]
                e == trades_log[base + j]
            IN  /\ r.action = "SELL"
                /\ e.ticker = r.ticker /\ e.exit_date = r.date
                /\ e.reasons = r.reasons
                /\ Members(r.reasons) =
                     FiringSet(e.entry_price, r.entry_price, r.r5, r.sn, r.sr,
                               e.entry_date, r.date)
                /\ Len(r.reasons) = Cardinality(Members(r.reasons))
                /\ r.reasons # <<>>
        /\ \A j \in DOMAIN trades_log :
            LET e == trades_log[j]
            IN  Members(e.reasons) =
                    FiringSet(e.entry_price, e.exit_price, e.r5, e.sn, e.sr,
                              e.entry_date, e.exit_date)

\* a position was closed on two triggers at once, neither of them the first
\* of the list
C5_Witness ==
    \E j \in SellRows(signals) :
        /\ Len(signals[j].reasons) >= 2
        /\ "stop -8%" \notin Members(signals[j].reasons)
        /\ \E k \in DOMAIN trades_log :
              trades_log[k].reasons = signals[j].reasons

\* C6: in a run, an open position whose ticker has no price is passed over:
\* no SELL row, no closed-trade log entry, and the position is in the ledger
\* after the run as it was, even when its holding period is over.
C6_StaleMeansHold ==
    [][RunStep =>
        \A k \in DOMAIN positions_file :
            LET p == positions_file[k]
                t == p.ticker
            IN  t \notin DOMAIN last_close' =>
                /\ PosVal(p) \in PosVals(positions_file')
                /\ \A j \in (Len(trades_log) + 1)..Len(trades_log') :
                      trades_log'[j].ticker # t
                /\ outcome' = "completed" =>
                      /\ \A r \in RowsOf(signals', t) : r.action # "SELL"
                      /\ t \in open_set']_vars

\* a completed run left a position without a price in the saved ledger
\* although it had been held for HOLD_DAYS_MAX days or more on that day
C6_Witness ==
    /\ outcome = "completed"
    /\ \E k \in DOMAIN positions_file, i \in DOMAIN signals :
        /\ positions_file[k].ticker \notin DOMAIN last_close
        /\ signals[i].date - positions_file[k].entry_date >= HOLD_DAYS_MAX
        /\ positions_file[k].ticker \in open_set

\* C7: a run writes at most one SELL row per ticker, and it appends as many
\* closed-trade log entries as the exit rules removed positions (none when
\* the run ends without saving the ledger).
C7_CloseOnce ==
    [][RunStep =>
        IF outcome' = "completed"
        THEN LET removed == {k \in DOMAIN positions_file :
                                positions_file[k].ticker \notin open_set'}
             IN  /\ \A i, j \in SellRows(signals') :
                       signals'[i].ticker = signals'[j].ticker => i = j
                 /\ Cardinality(SellRows(signals')) = Cardinality(removed)
                 /\ Len(trades_log') - Len(trades_log) = Cardinality(removed)
                 /\ \A k \in removed :
                       \E j \in (Len(trades_log) + 1)..Len(trades_log') :
                           trades_log'[j].ticker = positions_file[k].ticker
        ELSE /\ trades_log' = trades_log
             /\ positions_file' = positions_file]_vars

\* a completed run sold a position: one SELL row, one log entry for it, and
\* the ticker is no longer open
C7_Witness ==
    /\ outcome = "completed"
    /\ \E i \in SellRows(signals) :
        /\ signals[i].ticker \notin open_set
        /\ trades_log # <<>>
        /\ trades_log[Len(trades_log)].ticker = signals[i].ticker
        /\ trades_log[Len(trades_log)].exit_date = signals[i].date

\* C8: on a run whose date is HOLD_DAYS_MAX days or more after the entry
\* date of a position whose ticker has a price, the position is closed with
\* the time trigger among its reasons.
C8_BoundedHolding ==
    [][RunStep =>
        \A k \in DOMAIN positions_file :
            LET p == positions_file[k]
            IN  (p.ticker \in DOMAIN last_close'
                    /\ TimeHolds(p.entry_date, today))
                => SoldWith(p.ticker, "time>3d")]_vars

\* C9: every position the run opens has the quantity the position sizer
\* gives for its entry price and the stop-loss distance, and no BUY row is
\* written for a ticker whose sized quantity is 0.
C9_SizedBuys ==
    /\ \A k \in DOMAIN positions_file :
          positions_file[k].qty =
              calculate_position_size(positions_file[k].entry_price,
                                      STOP_LOSS * (StopScale \div 100))
    /\ \A i \in DOMAIN signals :
          signals[i].action = "BUY" =>
              calculate_position_size(signals[i].entry_price,
                                      STOP_LOSS * (StopScale \div 100)) > 0

\* max_risk = PORTFOLIO_EQUITY * RISK_PER_TRADE, in units of 1/StopScale
MaxRiskScaled == ((PORTFOLIO_EQUITY * RISK_PER_TRADE) \div 100) * StopScale

C11_MinViablePosition ==
    (fn.op = "calculate_position_size" /\ fn.done) =>
        LET e == fn.entry_price
            sl == fn.sl
            q == fn.result
        IN  /\ (e > 0 /\ sl > 0 /\ MaxRiskScaled > e * sl) => q >= 1
            /\ q >= 0
            /\ q = 0 => \/ e <= 0
                        \/ sl <= 0
                        \/ /\ MaxRiskScaled <= e * sl
                           /\ MaxRiskScaled \div (e * sl) = 0

\* the sizer was applied where max_risk exceeds the risk per share by less
\* than one more share, and gave the single share
C11_Witness ==
    /\ fn.op = "calculate_position_size" /\ fn.done
    /\ fn.entry_price > 0 /\ fn.sl > 0
    /\ MaxRiskScaled > fn.entry_price * fn.sl
    /\ MaxRiskScaled < 2 * fn.entry_price * fn.sl
    /\ fn.result = 1

\* the tickers of a snapshot that pass both floors
Passing(lc, avg_vol) ==
    {t \in DOMAIN lc : lc[t] > MIN_PRICE /\ avg_vol[t] > MIN_AVG_VOL_20D}

\* C12: when fewer than 10 tickers of the snapshot pass both the price floor
\* and the average-volume floor the screened set is every ticker of the
\* snapshot; when at least 10 pass it is exactly the passing tickers.
C12_ScreenerFallback ==
    (fn.op = "screen" /\ fn.done) =>
        LET passing == Passing(fn.lc, fn.avg_vol)
        IN  /\ Cardinality(passing) < 10 => fn.result = DOMAIN fn.lc
            /\ Cardinality(passing) >= 10 => fn.result = passing

\* a snapshot of 20 tickers of which 6 pass was screened to all 20
C12_Witness ==
    /\ fn.op = "screen" /\ fn.done
    /\ Cardinality(DOMAIN fn.lc) = 20
    /\ Cardinality(Passing(fn.lc, fn.avg_vol)) = 6
    /\ Cardinality(fn.result) = 20

\* the sum of the five channel weights, in percent
WeightSum(w) == w.mom + w.rs + w.news + w.reddit + w.squeeze

\* C13: a weight set that does not sum to 1.0 is rejected: no scoring made
\* with such weights yields a BUY/HOLD table or a buy set.
C13_WeightSumEnforced ==
    (fn.op = "score" /\ fn.done /\ WeightSum(fn.w) # 100) =>
        /\ DOMAIN fn.result.action = {}
        /\ fn.result.buy_set = {}

\* C14: a run whose loaded universe is empty aborts with its own error,
\* fetches no prices (and so reaches no news or social fetch), writes no
\* signal table, appends nothing to the closed-trade log and leaves the
\* ledger file as it was.
C14_EmptyUniverseFatal ==
    [][(RunStep /\ universe' = {}) =>
          /\ outcome' = "empty_universe"
          /\ fetched' = FALSE
          /\ UNCHANGED <<positions_file, signals, trades_log>>]_vars

\* a run on an empty universe ended while a ledger and a signal table from
\* an earlier run were in place
C14_Witness ==
    /\ outcome = "empty_universe"
    /\ universe = {}
    /\ ~fetched
    /\ positions_file # <<>>
    /\ signals # <<>>

\* the tickers given the action a by a scoring
WithAction(res, a) == {t \in DOMAIN res.action : res.action[t] = a}

\* the place of ticker t in the column order
Place(order, t) == CHOOSE i \in DOMAIN order : order[i] = t

\* the scored tickers ranked before t: a greater combined score, or the
\* same score and an earlier column
RankedBefore(c, order, t) ==
    {u \in DOMAIN c : \/ c[u] > c[t]
                      \/ c[u] = c[t] /\ Place(order, u) < Place(order, t)}

\* C15: with no open position the BUY rows of the table are at most
\* TOP_N_BUYS scored tickers, each with fewer than TOP_N_BUYS tickers scored
\* above it, and every other screened ticker is HOLD; with TOP_N_BUYS = 1 the
\* one BUY is a ticker of the highest combined score; and the table is fixed
\* by the inputs: BUY is exactly the first TOP_N_BUYS of the ranking.
C15_TopNSelection ==
    (fn.op = "score" /\ fn.done) =>
        LET c == fn.result.combined
            buys == WithAction(fn.result, "BUY")
        IN  /\ buys \subseteq DOMAIN c
            /\ Cardinality(buys) <= fn.top_n
            /\ \A t \in buys :
                  Cardinality({u \in DOMAIN c : c[u] > c[t]}) < fn.top_n
            /\ WithAction(fn.result, "HOLD") = fn.screened \ buys
            /\ (fn.top_n = 1 /\ DOMAIN c # {}) =>
                  \E t \in DOMAIN c :
                      buys = {t} /\ \A u \in DOMAIN c : c[u] <= c[t]
            /\ buys = {t \in DOMAIN c :
                          Cardinality(RankedBefore(c, fn.order, t))
                              < fn.top_n}

\* A, B and C were scored with TOP_N_BUYS = 1 and three different combined
\* scores: the last column had the highest and is the one BUY
C15_Witness ==
    /\ fn.op = "score" /\ fn.done /\ fn.top_n = 1
    /\ DOMAIN fn.result.combined = fn.screened
    /\ \A t, u \in fn.screened :
          t # u => fn.result.combined[t] # fn.result.combined[u]
    /\ WithAction(fn.result, "BUY") = {fn.order[3]}
    /\ WithAction(fn.result, "HOLD") = {fn.order[1], fn.order[2]}

\* C16: in the signal table of every run each SELL row comes before every
\* BUY row and every HOLD row.
C16_SellRowsFirst ==
    \A i, j \in DOMAIN signals :
        (signals[i].action = "SELL" /\ signals[j].action \in {"BUY", "HOLD"})
            => i < j

\* a table was written that has a SELL row and a BUY or HOLD row
C16_Witness ==
    /\ outcome = "completed"
    /\ \E i \in DOMAIN signals : signals[i].action = "SELL"
    /\ \E j \in DOMAIN signals : signals[j].action \in {"BUY", "HOLD"}

\* C17: the squeeze score of every screened ticker is max(0, short-interest
\* z-score) * max(0, momentum z-score), a ticker missing from a series
\* counting with z-score 0: it is never negative and it is 0 whenever one of
\* the two z-scores is <= 0.
C17_SqueezeScore ==
    (fn.op = "score" /\ fn.done) =>
        LET mom_z == zscore(fn.r5)
            short_z == zscore(fn.si_pct)
        IN  \A t \in fn.screened :
                LET zm == Get(mom_z, t, 0)
                    zs == Get(short_z, t, 0)
                    sq == fn.result.sq_row[t]
                IN  /\ sq = Max(0, zs) * Max(0, zm)
                    /\ sq >= 0
                    /\ (zm <= 0 \/ zs <= 0) => sq = 0
                    /\ (t \notin DOMAIN fn.r5 \/ t \notin DOMAIN fn.si_pct)
                            => sq = 0

\* one scoring gave a positive squeeze score to a ticker above the mean in
\* both series, 0 to a ticker with momentum above the mean and no short
\* interest figure, and 0 to a ticker below the mean in momentum
C17_Witness ==
    /\ fn.op = "score" /\ fn.done
    /\ \E t, u, v \in fn.screened :
          /\ fn.result.sq_row[t] > 0
          /\ u \notin DOMAIN fn.si_pct /\ u \in DOMAIN fn.r5
          /\ fn.result.r5_z[u] > 0 /\ fn.result.sq_row[u] = 0
          /\ v \in DOMAIN fn.r5 /\ fn.result.r5_z[v] < 0
          /\ fn.result.sq_row[v] = 0

\* N * (x - mean) for the element i of the series s of N elements
Deviation(s, i) == Cardinality(DOMAIN s) * s[i] - SumOver(s, DOMAIN s)

\* N^3 times the population variance of s
SumSquares(s) ==
    SumOver([i \in DOMAIN s |-> Deviation(s, i) * Deviation(s, i)], DOMAIN s)

\* z (in 1/ZUnit, magnitude truncated) is (x_i - mean) / population stddev:
\* z^2 = N * Deviation^2 / SumSquares to that resolution, with the sign of
\* the deviation
IsPopulationZ(s, i, z) ==
    LET N == Cardinality(DOMAIN s)
        d == Deviation(s, i)
    IN  /\ z * d >= 0
        /\ z * z * SumSquares(s) <= ZUnit * ZUnit * N * d * d
        /\ ZUnit * ZUnit * N * d * d
                < (Abs(z) + 1) * (Abs(z) + 1) * SumSquares(s)

\* C18: zscore returns 0 for every element of a series whose population
\* standard deviation is 0 (all values equal, or a single element), and
\* (x_i - mean) / population standard deviation (denominator N) for every
\* element of a series whose standard deviation is > 0.
C18_ZScore ==
    (fn.op = "zscore" /\ fn.done) =>
        \A i \in DOMAIN fn.s :
            /\ SumSquares(fn.s) = 0 => fn.result[i] = 0
            /\ SumSquares(fn.s) > 0 => IsPopulationZ(fn.s, i, fn.result[i])

\* C19: close_position(L, t) for a ticker t with no row in L returns L as it
\* is; for a ticker with a row in L it returns L without any row of t, the
\* rows of every other ticker as they were and in the same order.
C19_CloseAbsentNoOp ==
    (fn.op = "close_position" /\ fn.done) =>
        LET L == fn.df
            t == fn.ticker
            R == fn.result
            others == {i \in DOMAIN L : L[i].ticker # t}
        IN  /\ t \notin TickersOf(L) => R = L
            /\ t \in TickersOf(L) =>
                  /\ t \notin TickersOf(R)
                  /\ Len(R) = Cardinality(others)
                  /\ \A i \in others : \E j \in DOMAIN R : R[j] = L[i]
                  /\ \A i, j \in DOMAIN R :
                        i < j => \E k, l \in others :
                                    k < l /\ L[k] = R[i] /\ L[l] = R[j]

\* close_position was applied to a ledger with an open position and a
\* ticker that has none, and returned that ledger
C19_Witness ==
    /\ fn.op = "close_position" /\ fn.done
    /\ fn.df # <<>>
    /\ fn.ticker \notin TickersOf(fn.df)
    /\ fn.result = fn.df

\* C20: in a run, every open position whose ticker has a price and has
\* sentiment 0.0 in both channels (no news and no social document for it) is
\* closed with the sentiment-floor trigger among its reasons, whatever its
\* P&L, momentum and days held are.
C20_MissingSentimentExit ==
    [][RunStep =>
        \A k \in DOMAIN positions_file :
            LET t == positions_file[k].ticker
            IN  (/\ t \in DOMAIN last_close'
                 /\ Get(sent_news_norm', t, 0) = 0
                 /\ Get(sent_reddit_norm', t, 0) = 0)
                => SoldWith(t, "sent_norm<0.20")]_vars

\* C21: in a run, a ticker whose position is closed and which is in the buy
\* set is outside the open set used against duplicate BUYs, gets a SELL row
\* and a BUY row in the same signal table, and the saved ledger holds
\* exactly one position for it, entered on the run date at the last close.
C21_SellThenRebuy ==
    [][(RunStep /\ outcome' = "completed") =>
        \A t \in TickersOf(positions_file) :
            ((\E r \in RowsOf(signals', t) : r.action = "SELL")
                    /\ t \in buy_set')
            => /\ t \notin open_set'
               /\ \E r \in RowsOf(signals', t) : r.action = "BUY"
               /\ Cardinality({k \in DOMAIN positions_file' :
                                  positions_file'[k].ticker = t}) = 1
               /\ \A k \in DOMAIN positions_file' :
                     positions_file'[k].ticker = t =>
                        /\ positions_file'[k].entry_date = today
                        /\ positions_file'[k].entry_price = last_close'[t]]_vars

\* a table has a SELL row and a BUY row for one ticker, sold at a price
\* other than its entry price, and the ledger holds it re-entered on the
\* run date at the price of the rows
C21_Witness ==
    /\ outcome = "completed"
    /\ \E i, j \in DOMAIN signals :
          /\ signals[i].action = "SELL" /\ signals[j].action = "BUY"
          /\ signals[i].ticker = signals[j].ticker
          /\ signals[i].ticker \in buy_set \ open_set
          /\ \E e \in DOMAIN trades_log :
                /\ trades_log[e].ticker = signals[i].ticker
                /\ trades_log[e].exit_date = today
                /\ trades_log[e].entry_price # last_close[signals[i].ticker]
          /\ \E k \in DOMAIN positions_file :
                /\ positions_file[k].ticker = signals[i].ticker
                /\ positions_file[k].entry_date = today
                /\ positions_file[k].entry_price
                      = last_close[signals[i].ticker]

====
